---- MODULE Spec2Model ----
(***************************************************************************)
(* ChatManager (src/python/workshop/chat_manager.py): the session->thread  *)
(* registry under its asyncio lock, and process_chat_message, the async    *)
(* generator that spawns run_stream as a background task and drains the    *)
(* handler's token queue under a per-item timeout.                         *)
(*                                                                         *)
(* Conventions.  An Optional value is a sequence of length at most one:    *)
(* None is <<>> and a present value v is <<v>>.  A Python string is the    *)
(* sequence of the pieces it is concatenated from, so an f-string is the   *)
(* concatenation (\o) of its literal parts and its formatted arguments.    *)
(* Coroutines are cut into one action per stretch of code between two      *)
(* suspension points (await, yield).                                       *)
(***************************************************************************)
EXTENDS Integers, Sequences, FiniteSets, TLC

\* ------------------------------------------------------------------ bounds
\* Direct callers of get_or_create_thread / clear_session_thread, beside the request.
NumCallers == 2
\* Registry calls the direct callers make, in all.
MaxCalls == 3
\* Items the event sink pushes during one run.
MaxItems == 2

\* --------------------------------------------------------------- constants
\* config.response_timeout_seconds, read at the pop and in the timeout message.
response_timeout_seconds == 60

None == <<>>
Some(v) == <<v>>

\* The process of the chat request, and the direct callers of the registry.
Req == 0
Callers == 1..NumCallers
Procs == {Req} \cup Callers

Sessions == {"default", "s1"}

Whitespace == {" ", "\n"}
\* Request messages: empty, whitespace-only, padded and plain text.
Messages ==
    { <<>>, <<" ">>, <<" ", "\n">>, <<"a">>, <<" ", "a", "\n">>, <<"a", " ", "b">> }
\* rls_user_id: absent, empty, present.
RlsIds == { None, Some(""), Some("u1") }
\* session_id: absent, empty, present.
SessionIds == { None, Some(""), Some("s1") }

\* ChatRequest.
Requests == [message : Messages, session_id : SessionIds, rls_user_id : RlsIds]

\* ChatResponse: four optional-or-defaulted fields.
ChatResponse(c, f, e, d) == [content |-> c, file_info |-> f, error |-> e, done |-> d]
ContentResponse(s) == ChatResponse(Some(s), None, None, FALSE)
FileResponse(f) == ChatResponse(None, Some(f), None, FALSE)
ErrorResponse(s) == ChatResponse(None, None, Some(s), FALSE)
DoneResponse == ChatResponse(None, None, None, TRUE)

\* ------------------------------------------------------------ stream items
\* What travels on token_queue: None (end of stream), a dict with a "type", or a
\* plain string.
EndOfStream == [isdict |-> FALSE, type |-> "None", val |-> <<>>]
TextItem(s) == [isdict |-> TRUE, type |-> "text", val |-> s]
FileItem(f) == [isdict |-> TRUE, type |-> "file", val |-> f]
ErrorItem(s) == [isdict |-> TRUE, type |-> "error", val |-> s]
PlainItem(s) == [isdict |-> FALSE, type |-> "str", val |-> s]

\* The items the event sink puts during a run: text and file dicts, and a plain
\* string (the fallback of line 254).  Error dicts are put by run_stream itself.
SinkItems == { TextItem(<<"a">>), TextItem(<<"b">>), FileItem(<<"f1">>), PlainItem(<<"p">>) }

\* The failure of the remote stream, as str(e).
StreamFailure == <<"stream failed">>

\* web_handler.usage and web_handler.incomplete_details at the end of a run.
Usages == { None, Some([prompt_tokens |-> 10, completion_tokens |-> 5, total_tokens |-> 15]) }
IncompleteDetails == { None, Some([reason |-> "max_completion_tokens"]) }

\* --------------------------------------------------------- pure functions
\* str.strip(): leading and trailing whitespace removed.
RECURSIVE LStrip(_)
LStrip(s) == IF s # <<>> /\ Head(s) \in Whitespace THEN LStrip(Tail(s)) ELSE s

RECURSIVE RStrip(_)
RStrip(s) ==
    IF s # <<>> /\ s[Len(s)] \in Whitespace THEN RStrip(SubSeq(s, 1, Len(s) - 1)) ELSE s

\* Strip with a fault: the message is tested as it came.
StripNothing(s) == s

Strip(s) == RStrip(LStrip(s))

\* Truthy with a fault: only None is falsy.
TruthyUnlessNone(opt) == opt # None

\* Truthiness of an Optional[str]: None and "" are falsy.
Truthy(opt) == opt # None /\ opt[1] # ""

\* request.session_id or "default"
SessionOf(r) == IF Truthy(r.session_id) THEN r.session_id[1] ELSE "default"

\* ------------------------------------------------------------------- state
VARIABLES
    \* AgentManagerProtocol: is_initialized, agents_client, agent (as "is not None").
    is_initialized, agents_client, agent,
    \* ChatManager.session_threads: session id -> Optional thread id.
    session_threads,
    \* ChatManager._session_lock: None, or the process holding it.
    session_lock,
    \* The remote engine: created_for[t] is the session thread t was created for
    \* (threads are numbered in creation order), threads_deleted the deleted ones,
    \* thread_messages the (thread, content) pairs appended.
    created_for, threads_deleted, thread_messages,
    \* One frame of get_or_create_thread / clear_session_thread per process:
    \* position, session id argument, returned thread, raised exception.
    reg_pc, reg_sess, reg_ret, reg_exc,
    \* History: registry calls made by the direct callers, the (session, thread)
    \* pairs get_or_create_thread returned, the sessions clear was called for.
    calls, returns, clear_called,
    \* The request and the position of its generator.
    request, pc,
    \* History: the responses yielded, and the source line of each yield.
    responses, yield_lines,
    \* History: the caller closed the generator at a yield.
    closing,
    \* Locals of process_chat_message: session_thread, usage, incomplete_details.
    session_thread, usage, incomplete_details,
    \* stream_task: the position of run_stream; cancel_requested: Task.cancel() was
    \* called and its CancelledError is not yet delivered.
    stream_task, cancel_requested,
    \* web_handler: token_queue and run_id ("is not None").
    token_queue, run_id,
    \* History: every item put on token_queue, in order; the outcome of runs.cancel
    \* ("none" when it was not called).
    pushed, run_cancel_requested,
    \* History: the failures the request met ("thread", "append", "stream",
    \* "cancel_run", "timeout", and "put_cancelled" for a cancellation that met
    \* the put of the finally), and how the loop was left ("eos", "timeout",
    \* "closed"; "none" before).
    failures, loop_exit

hist_vars == <<failures, loop_exit>>
reg_vars == <<session_threads, session_lock, created_for, threads_deleted,
              reg_pc, reg_sess, reg_ret, reg_exc, calls, returns, clear_called>>
mgr_vars == <<is_initialized, agents_client, agent>>
gen_vars == <<request, pc, responses, yield_lines, closing, session_thread,
              usage, incomplete_details, thread_messages>>
task_vars == <<stream_task, cancel_requested, token_queue, run_id, pushed,
               run_cancel_requested>>
vars == <<mgr_vars, reg_vars, gen_vars, task_vars, hist_vars>>

\* ChatManager.__init__, a request not yet started, no task.
Init ==
    /\ is_initialized \in BOOLEAN
    /\ agents_client \in BOOLEAN
    /\ agent \in BOOLEAN
    /\ session_threads = [s \in Sessions |-> None]
    /\ session_lock = None
    /\ created_for = <<>>
    /\ threads_deleted = {}
    /\ thread_messages = <<>>
    /\ reg_pc = [p \in Procs |-> "idle"]
    /\ reg_sess = [p \in Procs |-> "default"]
    /\ reg_ret = [p \in Procs |-> None]
    /\ reg_exc = [p \in Procs |-> None]
    /\ calls = 0
    /\ returns = {}
    /\ clear_called = {}
    /\ request \in Requests
    /\ pc = "new"
    /\ responses = <<>>
    /\ yield_lines = <<>>
    /\ closing = FALSE
    /\ session_thread = None
    /\ usage = None
    /\ incomplete_details = None
    /\ stream_task = "none"
    /\ cancel_requested = FALSE
    /\ token_queue = <<>>
    /\ run_id = FALSE
    /\ pushed = <<>>
    /\ run_cancel_requested = "none"
    /\ failures = {}
    /\ loop_exit = "none"

\* ---------------------------------------------------------- thread registry
\* LockFree with a fault: the lock is not waited for.
LockIgnored == TRUE

\* async with self._session_lock: the lock can be taken when nobody holds it.
LockFree == session_lock = None

\* session_id in self.session_threads
HasThread(s) == session_threads[s] # None

\* A direct caller calls get_or_create_thread(s).
CallGet(p, s) ==
    /\ p \in Callers
    /\ reg_pc[p] \in {"idle", "returned", "raised"}
    /\ calls < MaxCalls
    /\ calls' = calls + 1
    /\ reg_pc' = [reg_pc EXCEPT ![p] = "g_lock"]
    /\ reg_sess' = [reg_sess EXCEPT ![p] = s]
    /\ reg_ret' = [reg_ret EXCEPT ![p] = None]
    /\ reg_exc' = [reg_exc EXCEPT ![p] = None]
    /\ UNCHANGED <<session_threads, session_lock, created_for, threads_deleted,
                   returns, clear_called>>
    /\ UNCHANGED <<mgr_vars, gen_vars, task_vars>>
    /\ UNCHANGED hist_vars

\* get_or_create_thread from the acquisition of the lock to its first await, or
\* to its return: the existing thread, ValueError, or the start of the creation.
GetLocked(p) ==
    /\ reg_pc[p] = "g_lock"
    /\ LockFree
    /\ IF HasThread(reg_sess[p])
         THEN /\ reg_pc' = [reg_pc EXCEPT ![p] = "returned"]
              /\ reg_ret' = [reg_ret EXCEPT ![p] = session_threads[reg_sess[p]]]
              /\ returns' = returns \cup {<<reg_sess[p], session_threads[reg_sess[p]][1]>>}
              /\ UNCHANGED <<session_lock, reg_exc>>
         ELSE IF ~agents_client
           THEN /\ reg_pc' = [reg_pc EXCEPT ![p] = "raised"]
                /\ reg_exc' = [reg_exc EXCEPT ![p] = Some(<<"AgentsClient is not initialized">>)]
                /\ UNCHANGED <<session_lock, reg_ret, returns>>
           ELSE /\ reg_pc' = [reg_pc EXCEPT ![p] = "g_create"]
                /\ session_lock' = Some(p)
                /\ UNCHANGED <<reg_ret, reg_exc, returns>>
    /\ UNCHANGED <<session_threads, created_for, threads_deleted, reg_sess, calls,
                   clear_called>>
    /\ UNCHANGED <<mgr_vars, gen_vars, task_vars>>
    /\ UNCHANGED hist_vars

\* threads.create() returned: the thread is stored and returned, the lock released.
GetCreated(p) ==
    /\ reg_pc[p] = "g_create"
    /\ LET t == Len(created_for) + 1 IN
         /\ created_for' = Append(created_for, reg_sess[p])
         /\ session_threads' = [session_threads EXCEPT ![reg_sess[p]] = Some(t)]
         /\ reg_ret' = [reg_ret EXCEPT ![p] = Some(t)]
         /\ returns' = returns \cup {<<reg_sess[p], t>>}
    /\ reg_pc' = [reg_pc EXCEPT ![p] = "returned"]
    /\ session_lock' = None
    /\ UNCHANGED <<threads_deleted, reg_sess, reg_exc, calls, clear_called>>
    /\ UNCHANGED <<mgr_vars, gen_vars, task_vars>>
    /\ UNCHANGED hist_vars

\* threads.create() raised: nothing is stored, the lock is released.
GetCreateFailed(p) ==
    /\ reg_pc[p] = "g_create"
    /\ reg_pc' = [reg_pc EXCEPT ![p] = "raised"]
    /\ reg_exc' = [reg_exc EXCEPT ![p] = Some(<<"thread creation failed">>)]
    /\ session_lock' = None
    /\ UNCHANGED <<session_threads, created_for, threads_deleted, reg_sess, reg_ret,
                   calls, returns, clear_called>>
    /\ UNCHANGED <<mgr_vars, gen_vars, task_vars>>
    /\ UNCHANGED hist_vars

\* A direct caller calls clear_session_thread(s).
CallClear(p, s) ==
    /\ p \in Callers
    /\ reg_pc[p] \in {"idle", "returned", "raised"}
    /\ calls < MaxCalls
    /\ calls' = calls + 1
    /\ clear_called' = clear_called \cup {s}
    /\ reg_pc' = [reg_pc EXCEPT ![p] = "c_lock"]
    /\ reg_sess' = [reg_sess EXCEPT ![p] = s]
    /\ reg_ret' = [reg_ret EXCEPT ![p] = None]
    /\ reg_exc' = [reg_exc EXCEPT ![p] = None]
    /\ UNCHANGED <<session_threads, session_lock, created_for, threads_deleted, returns>>
    /\ UNCHANGED <<mgr_vars, gen_vars, task_vars>>
    /\ UNCHANGED hist_vars

\* ClearLocked with a fault: without a mapping the lock is kept.
ClearLockedKeepsLock(p) ==
    /\ reg_pc[p] = "c_lock"
    /\ LockFree
    /\ IF HasThread(reg_sess[p])
         THEN IF agents_client /\ agent
           THEN /\ reg_pc' = [reg_pc EXCEPT ![p] = "c_delete"]
                /\ session_lock' = Some(p)
                /\ UNCHANGED session_threads
           ELSE /\ reg_pc' = [reg_pc EXCEPT ![p] = "returned"]
                /\ session_threads' = [session_threads EXCEPT ![reg_sess[p]] = None]
                /\ UNCHANGED session_lock
         ELSE /\ reg_pc' = [reg_pc EXCEPT ![p] = "returned"]
              /\ session_lock' = Some(p)
              /\ UNCHANGED session_threads
    /\ UNCHANGED <<created_for, threads_deleted, reg_sess, reg_ret, reg_exc, calls,
                   returns, clear_called>>
    /\ UNCHANGED <<mgr_vars, gen_vars, task_vars>>
    /\ UNCHANGED hist_vars

\* clear_session_thread from the acquisition of the lock to its await of
\* threads.delete, or to its return when there is no mapping or no deletion.
ClearLocked(p) ==
    /\ reg_pc[p] = "c_lock"
    /\ LockFree
    /\ IF HasThread(reg_sess[p])
         THEN IF agents_client /\ agent
           THEN /\ reg_pc' = [reg_pc EXCEPT ![p] = "c_delete"]
                /\ session_lock' = Some(p)
                /\ UNCHANGED session_threads
           ELSE /\ reg_pc' = [reg_pc EXCEPT ![p] = "returned"]
                /\ session_threads' = [session_threads EXCEPT ![reg_sess[p]] = None]
                /\ UNCHANGED session_lock
         ELSE /\ reg_pc' = [reg_pc EXCEPT ![p] = "returned"]
              /\ UNCHANGED <<session_threads, session_lock>>
    /\ UNCHANGED <<created_for, threads_deleted, reg_sess, reg_ret, reg_exc, calls,
                   returns, clear_called>>
    /\ UNCHANGED <<mgr_vars, gen_vars, task_vars>>
    /\ UNCHANGED hist_vars

\* threads.delete() returned: the mapping is removed, the lock released.
ClearDeleted(p) ==
    /\ reg_pc[p] = "c_delete"
    /\ threads_deleted' = threads_deleted \cup {session_threads[reg_sess[p]][1]}
    /\ session_threads' = [session_threads EXCEPT ![reg_sess[p]] = None]
    /\ reg_pc' = [reg_pc EXCEPT ![p] = "returned"]
    /\ session_lock' = None
    /\ UNCHANGED <<created_for, reg_sess, reg_ret, reg_exc, calls, returns, clear_called>>
    /\ UNCHANGED <<mgr_vars, gen_vars, task_vars>>
    /\ UNCHANGED hist_vars

\* An exception leaves the lock's block between the await of threads.delete and
\* the del (lines 98-102): raised by the remote call, whether or not the engine
\* had deleted the thread by then, or by the span attributes after the deletion.
\* The del is skipped, the lock released.
ClearDeleteFailed(p, deleted) ==
    /\ reg_pc[p] = "c_delete"
    /\ threads_deleted' = IF deleted
                             THEN threads_deleted \cup {session_threads[reg_sess[p]][1]}
                             ELSE threads_deleted
    /\ reg_pc' = [reg_pc EXCEPT ![p] = "raised"]
    /\ reg_exc' = [reg_exc EXCEPT ![p] = Some(<<"thread deletion failed">>)]
    /\ session_lock' = None
    /\ UNCHANGED <<session_threads, created_for, reg_sess, reg_ret, calls, returns,
                   clear_called>>
    /\ UNCHANGED <<mgr_vars, gen_vars, task_vars>>
    /\ UNCHANGED hist_vars

\* ------------------------------------------------- process_chat_message
\* ValidationError with a fault: the initialization check comes first.
ValidationErrorInitFirst(r) ==
    IF ~is_initialized
      THEN Some([error |-> <<"Agent not initialized">>, line |-> 122])
    ELSE IF Strip(r.message) = <<>>
      THEN Some([error |-> <<"Empty message">>, line |-> 114])
    ELSE IF ~Truthy(r.rls_user_id)
      THEN Some([error |-> <<"RLS User ID is required">>, line |-> 118])
    ELSE IF ~agents_client \/ ~agent
      THEN Some([error |-> <<"Agent components not properly initialized">>, line |-> 127])
    ELSE None

\* The validation gate: the error and the line of the first check that fails,
\* None when all pass.
ValidationError(r) ==
    IF Strip(r.message) = <<>>
      THEN Some([error |-> <<"Empty message">>, line |-> 114])
    ELSE IF ~Truthy(r.rls_user_id)
      THEN Some([error |-> <<"RLS User ID is required">>, line |-> 118])
    ELSE IF ~is_initialized
      THEN Some([error |-> <<"Agent not initialized">>, line |-> 122])
    ELSE IF ~agents_client \/ ~agent
      THEN Some([error |-> <<"Agent components not properly initialized">>, line |-> 127])
    ELSE None

\* yield r at the given line; the generator is suspended at next_pc.
Yield(r, line, next_pc) ==
    /\ responses' = Append(responses, r)
    /\ yield_lines' = Append(yield_lines, line)
    /\ pc' = next_pc

\* The first __anext__: the validation gate, then the call of
\* get_or_create_thread for the request's session.
ReqStart ==
    /\ pc = "new"
    /\ LET v == ValidationError(request) IN
         IF v # None
           THEN /\ Yield(ErrorResponse(v[1].error), v[1].line, "y_reject")
                /\ UNCHANGED <<reg_pc, reg_sess>>
           ELSE /\ pc' = "thread"
                /\ reg_pc' = [reg_pc EXCEPT ![Req] = "g_lock"]
                /\ reg_sess' = [reg_sess EXCEPT ![Req] = SessionOf(request)]
                /\ UNCHANGED <<responses, yield_lines>>
    /\ UNCHANGED <<request, closing, session_thread, usage, incomplete_details,
                   thread_messages>>
    /\ UNCHANGED <<session_threads, session_lock, created_for, threads_deleted,
                   reg_ret, reg_exc, calls, returns, clear_called>>
    /\ UNCHANGED <<mgr_vars, task_vars>>
    /\ UNCHANGED hist_vars

\* The generator is resumed after a validation error, or after the error of the
\* outer except: it returns.
ReqReturn ==
    /\ pc \in {"y_reject", "y_except"}
    /\ pc' = "finished"
    /\ UNCHANGED <<request, responses, yield_lines, closing, session_thread, usage,
                   incomplete_details, thread_messages>>
    /\ UNCHANGED <<mgr_vars, reg_vars, task_vars>>
    /\ UNCHANGED hist_vars

\* except Exception as e: yield ChatResponse(error=f"Streaming error: {e!s}")
StreamingError(e) == ErrorResponse(<<"Streaming error: ">> \o e)

\* get_or_create_thread returned: the handler is created and messages.create awaited.
ReqThreadResolved ==
    /\ pc = "thread"
    /\ reg_pc[Req] = "returned"
    /\ session_thread' = reg_ret[Req]
    /\ pc' = "append"
    /\ reg_pc' = [reg_pc EXCEPT ![Req] = "idle"]
    /\ UNCHANGED <<request, responses, yield_lines, closing, usage, incomplete_details,
                   thread_messages>>
    /\ UNCHANGED <<session_threads, session_lock, created_for, threads_deleted,
                   reg_sess, reg_ret, reg_exc, calls, returns, clear_called>>
    /\ UNCHANGED <<mgr_vars, task_vars>>
    /\ UNCHANGED hist_vars

\* get_or_create_thread raised: the outer except yields the error.
ReqThreadFailed ==
    /\ pc = "thread"
    /\ reg_pc[Req] = "raised"
    /\ Yield(StreamingError(reg_exc[Req][1]), 288, "y_except")
    /\ reg_pc' = [reg_pc EXCEPT ![Req] = "idle"]
    /\ UNCHANGED <<request, closing, session_thread, usage, incomplete_details,
                   thread_messages>>
    /\ UNCHANGED <<session_threads, session_lock, created_for, threads_deleted,
                   reg_sess, reg_ret, reg_exc, calls, returns, clear_called>>
    /\ UNCHANGED <<mgr_vars, task_vars>>
    /\ failures' = failures \cup {"thread"}
    /\ UNCHANGED loop_exit

\* messages.create returned: the task is created and the first pop awaited.
ReqMessageAppended ==
    /\ pc = "append"
    /\ thread_messages' = Append(thread_messages, <<session_thread[1], request.message>>)
    /\ stream_task' = "created"
    /\ pc' = "pop"
    /\ UNCHANGED <<request, responses, yield_lines, closing, session_thread, usage,
                   incomplete_details>>
    /\ UNCHANGED <<cancel_requested, token_queue, run_id, pushed, run_cancel_requested>>
    /\ UNCHANGED <<mgr_vars, reg_vars>>
    /\ UNCHANGED hist_vars

\* messages.create raised: the outer except yields the error.
ReqAppendFailed ==
    /\ pc = "append"
    /\ Yield(StreamingError(<<"message creation failed">>), 288, "y_except")
    /\ UNCHANGED <<request, closing, session_thread, usage, incomplete_details,
                   thread_messages>>
    /\ UNCHANGED <<mgr_vars, reg_vars, task_vars>>
    /\ failures' = failures \cup {"append"}
    /\ UNCHANGED loop_exit

\* stream_task.done(): the task returned, was cancelled, or raised.
TaskDone == stream_task \in {"done", "cancelled", "failed"}

\* ItemResponse with a fault: an error item is yielded as content.
ItemResponseErrorAsContent(item) ==
    IF item.isdict /\ item.type = "file"
      THEN Some([response |-> FileResponse(item.val), line |-> 249])
      ELSE Some([response |-> ContentResponse(item.val), line |-> 247])

\* The response an item is translated to and the line that yields it.
ItemResponse(item) ==
    IF item.isdict
      THEN CASE item.type = "text" -> Some([response |-> ContentResponse(item.val), line |-> 247])
             [] item.type = "file" -> Some([response |-> FileResponse(item.val), line |-> 249])
             [] item.type = "error" -> Some([response |-> ErrorResponse(item.val), line |-> 251])
             [] OTHER -> None
      ELSE Some([response |-> ContentResponse(item.val), line |-> 254])

\* LeaveLoop with a fault: the task is neither cancelled nor awaited.
LeaveLoopNoCancel ==
    /\ pc' = "cleanup"
    /\ UNCHANGED cancel_requested

\* LeaveLoop with a fault: the task is cancelled and awaited whether it is done
\* or not.
LeaveLoopAlwaysCancels ==
    /\ cancel_requested' = TRUE
    /\ pc' = "join"

\* The finally of the loop up to its first await: the task is cancelled and
\* awaited when it is not done, else web_handler.cleanup() is awaited.
LeaveLoop ==
    IF ~TaskDone
      THEN /\ cancel_requested' = TRUE
           /\ pc' = "join"
      ELSE /\ pc' = "cleanup"
           /\ UNCHANGED cancel_requested

\* NextItem with a fault: the newest item is taken.
NextItemNewest(q) == q[Len(q)]

\* token_queue.get(): the oldest item of the queue.
NextItem(q) == Head(q)

\* token_queue.get() returned an item: None breaks the loop, any other item is
\* yielded as its response.
ReqPop ==
    /\ pc = "pop"
    /\ token_queue # <<>>
    /\ token_queue' = Tail(token_queue)
    /\ LET item == NextItem(token_queue) IN
         IF item = EndOfStream
           THEN /\ LeaveLoop
                /\ UNCHANGED <<responses, yield_lines>>
           ELSE LET r == ItemResponse(item) IN
                  IF r # None
                    THEN /\ Yield(r[1].response, r[1].line, "y_item")
                         /\ UNCHANGED cancel_requested
                    ELSE UNCHANGED <<pc, responses, yield_lines, cancel_requested>>
    /\ UNCHANGED <<request, closing, session_thread, usage, incomplete_details,
                   thread_messages>>
    /\ UNCHANGED <<stream_task, run_id, pushed, run_cancel_requested>>
    /\ UNCHANGED <<mgr_vars, reg_vars>>
    /\ loop_exit' = IF NextItem(token_queue) = EndOfStream THEN "eos" ELSE loop_exit
    /\ UNCHANGED failures

\* f"Response timeout after {config.response_timeout_seconds} seconds"
TimeoutError == <<"Response timeout after ", ToString(response_timeout_seconds), " seconds">>

\* asyncio.wait_for timed out: nothing arrived on the queue for the whole wait.
\* The task has taken its first step by then: it was scheduled before the wait.
ReqTimeout ==
    /\ pc = "pop"
    /\ token_queue = <<>>
    /\ stream_task # "created"
    /\ Yield(ErrorResponse(TimeoutError), 257, "y_timeout")
    /\ UNCHANGED <<request, closing, session_thread, usage, incomplete_details,
                   thread_messages>>
    /\ UNCHANGED <<mgr_vars, reg_vars, task_vars>>
    /\ failures' = failures \cup {"timeout"}
    /\ UNCHANGED loop_exit

\* Resumed after an item's response: the next pop.
ReqNextPop ==
    /\ pc = "y_item"
    /\ pc' = "pop"
    /\ UNCHANGED <<request, responses, yield_lines, closing, session_thread, usage,
                   incomplete_details, thread_messages>>
    /\ UNCHANGED <<mgr_vars, reg_vars, task_vars>>
    /\ UNCHANGED hist_vars

\* ReqTimeoutBreak with a fault: the wait is retried after the timeout error.
ReqTimeoutRetry ==
    /\ pc = "y_timeout"
    /\ pc' = "pop"
    /\ UNCHANGED <<request, responses, yield_lines, closing, session_thread, usage,
                   incomplete_details, thread_messages>>
    /\ UNCHANGED <<mgr_vars, reg_vars, task_vars, hist_vars>>

\* ReqTimeoutBreak with a fault: the generator returns after the timeout error.
ReqTimeoutReturn ==
    /\ pc = "y_timeout"
    /\ pc' = "finished"
    /\ loop_exit' = "timeout"
    /\ UNCHANGED <<request, responses, yield_lines, closing, session_thread, usage,
                   incomplete_details, thread_messages, failures>>
    /\ UNCHANGED <<mgr_vars, reg_vars, task_vars>>

\* Resumed after the timeout error: break.
ReqTimeoutBreak ==
    /\ pc = "y_timeout"
    /\ LeaveLoop
    /\ UNCHANGED <<request, responses, yield_lines, closing, session_thread, usage,
                   incomplete_details, thread_messages>>
    /\ UNCHANGED <<stream_task, token_queue, run_id, pushed, run_cancel_requested>>
    /\ UNCHANGED <<mgr_vars, reg_vars>>
    /\ loop_exit' = "timeout"
    /\ UNCHANGED failures

\* The caller closes the generator at a yield inside the loop: GeneratorExit
\* is raised at the yield and the finally runs.
ReqCloseInLoop ==
    /\ pc \in {"y_item", "y_timeout"}
    /\ closing' = TRUE
    /\ LeaveLoop
    /\ UNCHANGED <<request, responses, yield_lines, session_thread, usage,
                   incomplete_details, thread_messages>>
    /\ UNCHANGED <<stream_task, token_queue, run_id, pushed, run_cancel_requested>>
    /\ UNCHANGED <<mgr_vars, reg_vars>>
    /\ loop_exit' = "closed"
    /\ UNCHANGED failures

\* The caller closes the generator at a yield outside the loop: GeneratorExit
\* passes the except Exception and ends the generator.
ReqCloseOutside ==
    /\ pc \in {"y_reject", "y_except", "y_usage", "y_incomplete", "y_done"}
    /\ closing' = TRUE
    /\ pc' = "closed"
    /\ UNCHANGED <<request, responses, yield_lines, session_thread, usage,
                   incomplete_details, thread_messages>>
    /\ UNCHANGED <<mgr_vars, reg_vars, task_vars>>
    /\ UNCHANGED hist_vars

\* await stream_task returned, or raised the CancelledError that is suppressed.
ReqJoined ==
    /\ pc = "join"
    /\ stream_task \in {"done", "cancelled"}
    /\ pc' = "cleanup"
    /\ UNCHANGED <<request, responses, yield_lines, closing, session_thread, usage,
                   incomplete_details, thread_messages>>
    /\ UNCHANGED <<mgr_vars, reg_vars, task_vars>>
    /\ UNCHANGED hist_vars

\* web_handler.cleanup(): what is left on the queue is discarded.
Cleanup(q) == <<>>

\* UsageResponse with a fault: prompt and completion counts are exchanged.
UsageResponseSwapped(u) ==
    ContentResponse(<<"</br></br>Token usage: Prompt: ", ToString(u.completion_tokens),
                      ", Completion: ", ToString(u.prompt_tokens),
                      ", Total: ", ToString(u.total_tokens)>>)

\* The usage summary.
UsageResponse(u) ==
    ContentResponse(<<"</br></br>Token usage: Prompt: ", ToString(u.prompt_tokens),
                      ", Completion: ", ToString(u.completion_tokens),
                      ", Total: ", ToString(u.total_tokens)>>)

\* The incompletion reason.
IncompleteResponse(d) == ContentResponse(<<"</br>", d.reason>>)

\* The yields after the finally, from the incompletion reason on.
YieldIncompleteOrDone ==
    IF incomplete_details # None
      THEN Yield(IncompleteResponse(incomplete_details[1]), 281, "y_incomplete")
      ELSE Yield(DoneResponse, 283, "y_done")

\* The yields after the finally.
YieldCompletion ==
    IF usage # None
      THEN Yield(UsageResponse(usage[1]), 277, "y_usage")
      ELSE YieldIncompleteOrDone

\* web_handler.cleanup() returned: the finally is over.  A generator being
\* closed ends there; otherwise the completion responses follow.
ReqCleanedUp ==
    /\ pc = "cleanup"
    /\ token_queue' = Cleanup(token_queue)
    /\ IF closing
         THEN /\ pc' = "closed"
              /\ UNCHANGED <<responses, yield_lines>>
         ELSE YieldCompletion
    /\ UNCHANGED <<request, closing, session_thread, usage, incomplete_details,
                   thread_messages>>
    /\ UNCHANGED <<stream_task, cancel_requested, run_id, pushed, run_cancel_requested>>
    /\ UNCHANGED <<mgr_vars, reg_vars>>
    /\ UNCHANGED hist_vars

\* Resumed after the usage summary.
ReqAfterUsage ==
    /\ pc = "y_usage"
    /\ YieldIncompleteOrDone
    /\ UNCHANGED <<request, closing, session_thread, usage, incomplete_details,
                   thread_messages>>
    /\ UNCHANGED <<mgr_vars, reg_vars, task_vars>>
    /\ UNCHANGED hist_vars

\* Resumed after the incompletion reason.
ReqAfterIncomplete ==
    /\ pc = "y_incomplete"
    /\ Yield(DoneResponse, 283, "y_done")
    /\ UNCHANGED <<request, closing, session_thread, usage, incomplete_details,
                   thread_messages>>
    /\ UNCHANGED <<mgr_vars, reg_vars, task_vars>>
    /\ UNCHANGED hist_vars

\* Resumed after done=True: the generator ends.
ReqFinish ==
    /\ pc = "y_done"
    /\ pc' = "finished"
    /\ UNCHANGED <<request, responses, yield_lines, closing, session_thread, usage,
                   incomplete_details, thread_messages>>
    /\ UNCHANGED <<mgr_vars, reg_vars, task_vars>>
    /\ UNCHANGED hist_vars

\* An exception e leaves the finally of the loop and reaches the outer except:
\* its yield answers a generator that is being closed with a RuntimeError raised
\* to the caller of aclose(), and otherwise is the "Streaming error" response.
FinallyRaised(e) ==
    IF closing
      THEN /\ pc' = "raised"
           /\ UNCHANGED <<responses, yield_lines>>
      ELSE Yield(StreamingError(e), 288, "y_except")

\* await stream_task raised the exception the task ended with: it is not the
\* CancelledError that is suppressed, and web_handler.cleanup() is skipped.
ReqJoinFailed ==
    /\ pc = "join"
    /\ stream_task = "failed"
    /\ FinallyRaised(<<"put failed">>)
    /\ UNCHANGED <<request, closing, session_thread, usage, incomplete_details,
                   thread_messages>>
    /\ UNCHANGED <<mgr_vars, reg_vars, task_vars>>
    /\ failures' = failures \cup {"join"}
    /\ UNCHANGED loop_exit

\* web_handler.cleanup() raised: what is on the queue stays there.
ReqCleanupFailed ==
    /\ pc = "cleanup"
    /\ FinallyRaised(<<"cleanup failed">>)
    /\ UNCHANGED <<request, closing, session_thread, usage, incomplete_details,
                   thread_messages>>
    /\ UNCHANGED <<mgr_vars, reg_vars, task_vars>>
    /\ failures' = failures \cup {"cleanup"}
    /\ UNCHANGED loop_exit

\* -------------------------------------------------------------- run_stream
\* put_safely(item)
Put(item) ==
    /\ token_queue' = Append(token_queue, item)
    /\ pushed' = Append(pushed, item)

\* The task's first step: up to the await of runs.stream.
TaskStart ==
    /\ stream_task = "created"
    /\ stream_task' = "streaming"
    /\ UNCHANGED <<cancel_requested, token_queue, run_id, pushed, run_cancel_requested>>
    /\ UNCHANGED <<mgr_vars, reg_vars, gen_vars>>
    /\ UNCHANGED hist_vars

\* The event sink learns the id of the run.
SinkRunCreated ==
    /\ stream_task = "streaming"
    /\ ~cancel_requested
    /\ ~run_id
    /\ run_id' = TRUE
    /\ UNCHANGED <<stream_task, cancel_requested, token_queue, pushed, run_cancel_requested>>
    /\ UNCHANGED <<mgr_vars, reg_vars, gen_vars>>
    /\ UNCHANGED hist_vars

\* The event sink puts an item of the run on the queue.
SinkPut(item) ==
    /\ stream_task = "streaming"
    /\ ~cancel_requested
    /\ run_id
    /\ Len(pushed) < MaxItems
    /\ Put(item)
    /\ UNCHANGED <<stream_task, cancel_requested, run_id, run_cancel_requested>>
    /\ UNCHANGED <<mgr_vars, reg_vars, gen_vars>>
    /\ UNCHANGED hist_vars

\* stream.until_done() returned: the outcome is copied from the handler, and the
\* finally awaits put_safely(None).
StreamCompleted(u, d) ==
    /\ stream_task = "streaming"
    /\ ~cancel_requested
    /\ run_id
    /\ usage' = u
    /\ incomplete_details' = d
    /\ stream_task' = "finally"
    /\ UNCHANGED <<request, pc, responses, yield_lines, closing, session_thread,
                   thread_messages>>
    /\ UNCHANGED <<cancel_requested, token_queue, run_id, pushed, run_cancel_requested>>
    /\ UNCHANGED <<mgr_vars, reg_vars>>
    /\ UNCHANGED hist_vars

\* runs.stream or until_done raised: runs.cancel is awaited when the run id is
\* known, else the error is put.
StreamFailed ==
    /\ stream_task = "streaming"
    /\ ~cancel_requested
    /\ stream_task' = IF run_id THEN "cancel_run" ELSE "put_error"
    /\ UNCHANGED <<cancel_requested, token_queue, run_id, pushed, run_cancel_requested>>
    /\ UNCHANGED <<mgr_vars, reg_vars, gen_vars>>
    /\ failures' = failures \cup {"stream"}
    /\ UNCHANGED loop_exit

\* RunCancelReturned with a fault: a failure of runs.cancel is not caught, and
\* the except block is left before the error is put.
RunCancelFailurePropagates(outcome) ==
    /\ stream_task = "cancel_run"
    /\ ~cancel_requested
    /\ run_cancel_requested' = outcome
    /\ stream_task' = IF outcome = "failed" THEN "finally" ELSE "put_error"
    /\ UNCHANGED <<cancel_requested, token_queue, run_id, pushed>>
    /\ UNCHANGED <<mgr_vars, reg_vars, gen_vars>>
    /\ failures' = IF outcome = "failed" THEN failures \cup {"cancel_run"} ELSE failures
    /\ UNCHANGED loop_exit

\* runs.cancel returned, or raised (logged): the error is put next.
RunCancelReturned(outcome) ==
    /\ stream_task = "cancel_run"
    /\ ~cancel_requested
    /\ run_cancel_requested' = outcome
    /\ stream_task' = "put_error"
    /\ UNCHANGED <<cancel_requested, token_queue, run_id, pushed>>
    /\ UNCHANGED <<mgr_vars, reg_vars, gen_vars>>
    /\ failures' = IF outcome = "failed" THEN failures \cup {"cancel_run"} ELSE failures
    /\ UNCHANGED loop_exit

\* put_safely({"type": "error", "error": str(e)}), then the finally.
PutError ==
    /\ stream_task = "put_error"
    /\ ~cancel_requested
    /\ Put(ErrorItem(StreamFailure))
    /\ stream_task' = "finally"
    /\ UNCHANGED <<cancel_requested, run_id, run_cancel_requested>>
    /\ UNCHANGED <<mgr_vars, reg_vars, gen_vars>>
    /\ UNCHANGED hist_vars

\* finally: put_safely(None); the task ends, cancelled when the CancelledError
\* is propagating.
PutEndOfStream ==
    /\ stream_task \in {"finally", "finally_cancelled"}
    /\ ~cancel_requested
    /\ Put(EndOfStream)
    /\ stream_task' = IF stream_task = "finally" THEN "done" ELSE "cancelled"
    /\ UNCHANGED <<cancel_requested, run_id, run_cancel_requested>>
    /\ UNCHANGED <<mgr_vars, reg_vars, gen_vars>>
    /\ UNCHANGED hist_vars

\* TaskCancelled with a fault: the cancellation ends the task at once, the
\* finally is not run.
TaskCancelledSkipsFinally ==
    /\ cancel_requested
    /\ stream_task \in {"streaming", "cancel_run", "put_error"}
    /\ cancel_requested' = FALSE
    /\ stream_task' = "cancelled"
    /\ UNCHANGED <<token_queue, run_id, pushed, run_cancel_requested>>
    /\ UNCHANGED <<mgr_vars, reg_vars, gen_vars>>
    /\ UNCHANGED hist_vars

\* The CancelledError is raised at the await of the try or of the except: it
\* passes the except Exception and the finally runs.
TaskCancelled ==
    /\ cancel_requested
    /\ stream_task \in {"streaming", "cancel_run", "put_error"}
    /\ cancel_requested' = FALSE
    /\ stream_task' = "finally_cancelled"
    /\ UNCHANGED <<token_queue, run_id, pushed, run_cancel_requested>>
    /\ UNCHANGED <<mgr_vars, reg_vars, gen_vars>>
    /\ UNCHANGED hist_vars

\* put_safely(None) is awaited in the finally and the CancelledError is raised at
\* that await, before the item is on the queue: the task ends cancelled.
TaskCancelledInFinally ==
    /\ cancel_requested
    /\ stream_task = "finally"
    /\ cancel_requested' = FALSE
    /\ stream_task' = "cancelled"
    /\ UNCHANGED <<token_queue, run_id, pushed, run_cancel_requested>>
    /\ UNCHANGED <<mgr_vars, reg_vars, gen_vars>>
    /\ failures' = failures \cup {"put_cancelled"}
    /\ UNCHANGED loop_exit

\* put_safely(None) raised in the finally: the task ends with that exception,
\* which replaces a CancelledError that was propagating.
PutEndOfStreamFailed ==
    /\ stream_task \in {"finally", "finally_cancelled"}
    /\ ~cancel_requested
    /\ stream_task' = "failed"
    /\ UNCHANGED <<cancel_requested, token_queue, run_id, pushed, run_cancel_requested>>
    /\ UNCHANGED <<mgr_vars, reg_vars, gen_vars>>
    /\ failures' = failures \cup {"put"}
    /\ UNCHANGED loop_exit

\* ------------------------------------------------------------ specification
Registry ==
    \/ \E p \in Callers, s \in Sessions : CallGet(p, s)
    \/ \E p \in Callers, s \in Sessions : CallClear(p, s)
    \/ \E p \in Procs : GetLocked(p)
    \/ \E p \in Procs : GetCreated(p)
    \/ \E p \in Procs : GetCreateFailed(p)
    \/ \E p \in Callers : ClearLocked(p)
    \/ \E p \in Callers : ClearDeleted(p)
    \/ \E p \in Callers, deleted \in BOOLEAN : ClearDeleteFailed(p, deleted)

Generator ==
    \/ ReqStart
    \/ ReqReturn
    \/ ReqThreadResolved
    \/ ReqThreadFailed
    \/ ReqMessageAppended
    \/ ReqAppendFailed
    \/ ReqPop
    \/ ReqTimeout
    \/ ReqNextPop
    \/ ReqTimeoutBreak
    \/ ReqCloseInLoop
    \/ ReqCloseOutside
    \/ ReqJoined
    \/ ReqCleanedUp
    \/ ReqAfterUsage
    \/ ReqAfterIncomplete
    \/ ReqFinish

Task ==
    \/ TaskStart
    \/ SinkRunCreated
    \/ \E item \in SinkItems : SinkPut(item)
    \/ \E u \in Usages, d \in IncompleteDetails : StreamCompleted(u, d)
    \/ StreamFailed
    \/ \E outcome \in {"ok", "failed"} : RunCancelReturned(outcome)
    \/ PutError
    \/ PutEndOfStream
    \/ TaskCancelled
    \/ TaskCancelledInFinally

\* The registry frames of the request.
RequestRegistry ==
    \/ GetLocked(Req)
    \/ GetCreated(Req)
    \/ GetCreateFailed(Req)

\* One request served from start to end, its task included, with no direct
\* caller of the registry beside it.
Next == Generator \/ Task \/ RequestRegistry

Spec == Init /\ [][Next]_vars

\* The same, with every step that can be taken eventually taken: the event loop
\* runs every ready coroutine, every awaited remote call returns or raises, a
\* wait on the queue ends with an item or with the timeout, and the caller goes
\* on iterating or closes the generator.
LiveSpec == Spec /\ WF_vars(Next)

\* The generator up to the resolution of its thread.
RequestPrefix ==
    \/ ReqStart
    \/ ReqReturn
    \/ ReqThreadResolved
    \/ ReqThreadFailed

\* The registry under concurrent direct callers and the request, which is left
\* suspended at messages.create: past the resolution of its thread the generator
\* shares no state with the registry.
NextRegistry == Registry \/ RequestPrefix

\* The registry reads of the request its session id only, and is reached only
\* past the message and RLS checks: one message and one RLS id that pass them.
InitRegistry ==
    /\ Init
    /\ request.message = <<"a">>
    /\ request.rls_user_id = Some("u1")

SpecRegistry == InitRegistry /\ [][NextRegistry]_vars

\* The failures of the handoff channel during cleanup: the put of the finally,
\* the join that meets its exception, the drain.
ChannelFailures ==
    \/ PutEndOfStreamFailed
    \/ ReqJoinFailed
    \/ ReqCleanupFailed

\* One request served from start to end over a handoff channel whose operations
\* may fail during cleanup.
NextChannelFailures == Next \/ ChannelFailures

SpecChannelFailures == Init /\ [][NextChannelFailures]_vars

\* ------------------------------------------------------------------ claims
\* The request's message is empty or consists of whitespace only.
BlankMessage == \A i \in 1..Len(request.message) : request.message[i] \in Whitespace

\* The request carries no RLS user id: None or "".
MissingRls == request.rls_user_id \in {None, Some("")}

\* The request has had no effect outside its own responses: no thread created or
\* mapped, no message appended, no call of the registry, no task.
NoSideEffect ==
    /\ session_threads = [s \in Sessions |-> None]
    /\ created_for = <<>>
    /\ thread_messages = <<>>
    /\ reg_pc[Req] = "idle"
    /\ stream_task = "none"
    /\ pushed = <<>>

\* The request was answered by the one error response e, or is not yet started,
\* and the generator yields nothing more.
RejectedWith(e) ==
    /\ pc \in {"new", "y_reject", "finished", "closed"}
    /\ responses = IF pc = "new" THEN <<>> ELSE <<ErrorResponse(e)>>
    /\ NoSideEffect

\* C1: a request whose message is empty or whitespace-only gets exactly one
\* response, error="Empty message", whatever its session id, its RLS id and the
\* state of the agent manager; then the generator ends, and no thread is created
\* or mapped, no message appended, no task spawned.
C1_EmptyMessageRejected == BlankMessage => RejectedWith(<<"Empty message">>)

\* A whitespace-only message with nothing else wrong with the request was
\* answered and the generator has ended.
C1_Witness ==
    /\ request.message = <<" ", "\n">>
    /\ request.rls_user_id = Some("u1")
    /\ is_initialized /\ agents_client /\ agent
    /\ pc = "finished"
    /\ Len(responses) = 1

\* C2: a request with a non-blank message and no RLS user id (None or "") gets
\* exactly one response, error="RLS User ID is required"; then the generator ends
\* with no side effect.
C2_MissingRlsRejected ==
    (~BlankMessage /\ MissingRls) => RejectedWith(<<"RLS User ID is required">>)

\* A request with an empty RLS user id and nothing else wrong was answered and
\* the generator has ended.
C2_Witness ==
    /\ ~BlankMessage
    /\ request.rls_user_id = Some("")
    /\ is_initialized /\ agents_client /\ agent
    /\ pc = "finished"
    /\ Len(responses) = 1

\* The error of the earliest of the three checks the request fails.
EarliestError ==
    IF BlankMessage THEN <<"Empty message">>
    ELSE IF MissingRls THEN <<"RLS User ID is required">>
    ELSE <<"Agent not initialized">>

\* C3: the gate checks empty message, missing RLS id, agent manager not
\* initialized, in this order: a request failing any of them gets the error of
\* the earliest check it fails as its only response, with no side effect; so a
\* request passing the first two with the manager not initialized gets exactly
\* error="Agent not initialized".
C3_ValidationOrder ==
    (BlankMessage \/ MissingRls \/ ~is_initialized) => RejectedWith(EarliestError)

\* A request that passes the first two checks was answered with the manager not
\* initialized.
C3_Witness ==
    /\ ~BlankMessage /\ ~MissingRls /\ ~is_initialized
    /\ pc = "finished"
    /\ responses = <<ErrorResponse(<<"Agent not initialized">>)>>

\* The threads created remotely for session s, and those get_or_create_thread
\* returned for it.
ThreadsCreatedFor(s) == {t \in 1..Len(created_for) : created_for[t] = s}
ThreadsReturnedFor(s) == {r[2] : r \in {x \in returns : x[1] = s}}

\* C4: for a session that clear_session_thread was never called for, however the
\* concurrent get_or_create_thread calls interleave, at most one thread is
\* created remotely and every call that returns returns that one thread.
C4_SingleCreation ==
    \A s \in Sessions \ clear_called :
        /\ Cardinality(ThreadsCreatedFor(s)) <= 1
        /\ ThreadsReturnedFor(s) \subseteq ThreadsCreatedFor(s)

\* The request and the two direct callers all asked for the same session, never
\* cleared, and each has its thread.
C4_Witness ==
    \E s \in Sessions \ clear_called :
        /\ \A p \in {Req, 1, 2} : reg_sess[p] = s /\ reg_ret[p] # None
        /\ pc = "append"
        /\ Cardinality(ThreadsCreatedFor(s)) = 1

\* The generator has run to its end (the caller did not close it).
Exhausted == pc = "finished"

\* The generator has ended: exhausted, or closed by its caller.
Ended == pc \in {"finished", "closed"}

\* The task was spawned (line 223 was reached).
Spawned == stream_task # "none"

DoneCount == Cardinality({i \in 1..Len(responses) : responses[i].done})
LastResponse == responses[Len(responses)]

\* The sequence ends with its one done=True response.
EndsWithDone == DoneCount = 1 /\ LastResponse = DoneResponse

\* The sequence ends with an error response and holds no done=True.
EndsWithError == DoneCount = 0 /\ responses # <<>> /\ LastResponse.error # None

\* A sequence consumed to its end ends with its one done=True, or with an error
\* and no done=True, the latter only if the task was never spawned.
C5_Shape ==
    Exhausted =>
        /\ EndsWithDone \/ EndsWithError
        /\ EndsWithError => ~Spawned /\ failures \subseteq {"thread", "append"}
        /\ Spawned => EndsWithDone

ThreadFailureReported ==
    responses = <<ErrorResponse(<<"Streaming error: ">> \o reg_exc[Req][1])>>
AppendFailureReported ==
    responses = <<ErrorResponse(<<"Streaming error: ", "message creation failed">>)>>

\* The failure of the remote stream is the response before the last, which is
\* done=True.
StreamFailureReported ==
    /\ Len(responses) >= 2
    /\ responses[Len(responses) - 1] = ErrorResponse(<<"stream failed">>)
    /\ EndsWithDone

ItemLines == {247, 249, 251, 254}

\* The responses among the first n that were yielded for an item, in order.
RECURSIVE ItemResponsesAmong(_)
ItemResponsesAmong(n) ==
    IF n = 0 THEN <<>>
    ELSE IF yield_lines[n] \in ItemLines
      THEN Append(ItemResponsesAmong(n - 1), responses[n])
      ELSE ItemResponsesAmong(n - 1)

ItemResponses == ItemResponsesAmong(Len(responses))

\* The items of a sequence of puts that precede its first end-of-stream item.
RECURSIVE BeforeEndOfStream(_)
BeforeEndOfStream(q) ==
    IF q = <<>> \/ Head(q) = EndOfStream THEN <<>>
    ELSE <<Head(q)>> \o BeforeEndOfStream(Tail(q))

\* The response the claim expects for an item.
ExpectedResponse(item) ==
    CASE item.type = "file" -> [content |-> None, file_info |-> <<item.val>>,
                                error |-> None, done |-> FALSE]
      [] item.type = "error" -> [content |-> None, file_info |-> None,
                                 error |-> <<item.val>>, done |-> FALSE]
      [] OTHER -> [content |-> <<item.val>>, file_info |-> None,
                   error |-> None, done |-> FALSE]

\* C7: the responses yielded for items are, one per item and in the order of the
\* puts, the responses of the items put before the end-of-stream item: of all of
\* them when the loop ended by the end-of-stream item, of a prefix of them
\* otherwise (the loop still running, or left by timeout or by the caller).
C7_FifoOrder ==
    LET got == ItemResponses
        sent == BeforeEndOfStream(pushed)
    IN  /\ Len(got) <= Len(sent)
        /\ \A i \in 1..Len(got) : got[i] = ExpectedResponse(sent[i])
        /\ loop_exit = "eos" => Len(got) = Len(sent)

\* Text "a", Text "b", end of stream were put and observed as content "a",
\* content "b", end of the loop.
C7_Witness ==
    /\ pushed = <<TextItem(<<"a">>), TextItem(<<"b">>), EndOfStream>>
    /\ loop_exit = "eos"
    /\ ItemResponses = <<ContentResponse(<<"a">>), ContentResponse(<<"b">>)>>
    /\ Exhausted

\* The positions of the timeout error among the responses.
TimeoutPositions == {i \in 1..Len(yield_lines) : yield_lines[i] = 257}

\* C8: a pop that times out yields one error response naming
\* response_timeout_seconds; no response of an item follows it and the wait is
\* not retried; once the loop is left the task is finished, or cancelled
\* (the cancellation requested or already delivered).
C8_Timeout ==
    /\ Cardinality(TimeoutPositions) <= 1
    /\ \A i \in TimeoutPositions :
         /\ responses[i] = ErrorResponse(<<"Response timeout after ",
                                           ToString(response_timeout_seconds), " seconds">>)
         /\ \A j \in (i + 1)..Len(yield_lines) : yield_lines[j] \notin ItemLines
    /\ "timeout" \in failures =>
         /\ pc \notin {"pop", "y_item"}
         /\ pc # "y_timeout" =>
              \/ stream_task \in {"done", "cancelled", "finally_cancelled"}
              \/ cancel_requested

\* The wait timed out while the task was streaming, after one item was yielded;
\* the task was cancelled and an item put after the timeout was never yielded.
C8_Witness ==
    /\ "timeout" \in failures
    /\ Exhausted
    /\ stream_task = "cancelled"
    /\ Len(ItemResponses) = 1
    /\ Len(BeforeEndOfStream(pushed)) = 2

UsagePositions == {i \in 1..Len(yield_lines) : yield_lines[i] = 277}
IncompletePositions == {i \in 1..Len(yield_lines) : yield_lines[i] = 281}

\* C10: in a sequence that has yielded done=True, a recorded usage is reported by
\* exactly one response holding the prompt, completion and total counts, after
\* every response of an item and before done=True; a recorded incompletion
\* reason by one response after the usage response and before done=True; what
\* was not recorded is not reported.
C10_UsageSummary ==
    DoneCount = 1 =>
        /\ usage = None => UsagePositions = {}
        /\ usage # None =>
             /\ Cardinality(UsagePositions) = 1
             /\ \A u \in UsagePositions :
                  /\ responses[u] = ContentResponse(
                         <<"</br></br>Token usage: Prompt: ", "10",
                           ", Completion: ", "5", ", Total: ", "15">>)
                  /\ u < Len(responses)
                  /\ \A j \in 1..Len(yield_lines) : yield_lines[j] \in ItemLines => j < u
        /\ incomplete_details = None => IncompletePositions = {}
        /\ incomplete_details # None =>
             /\ Cardinality(IncompletePositions) = 1
             /\ \A i \in IncompletePositions :
                  /\ responses[i] = ContentResponse(<<"</br>", "max_completion_tokens">>)
                  /\ i < Len(responses)
                  /\ \A u \in UsagePositions : u < i

\* A run of two items that recorded usage and an incompletion reason was
\* consumed to its end.
C10_Witness ==
    /\ Exhausted
    /\ usage # None /\ incomplete_details # None
    /\ Len(ItemResponses) = 2
    /\ Len(responses) = 5


\* A caller's clear_session_thread passes the lock in this step.
ClearPassesLock(p) == reg_pc[p] = "c_lock" /\ reg_pc'[p] # "c_lock"

\* C11: clear_session_thread for a session without a mapping returns without
\* raising, deletes no remote thread, leaves the mapping of every session as it
\* was, and leaves the lock released.
C11_ClearUnmappedNoOp ==
    [][\A p \in Callers :
          (ClearPassesLock(p) /\ ~HasThread(reg_sess[p])) =>
              /\ reg_pc'[p] = "returned"
              /\ reg_exc'[p] = None
              /\ threads_deleted' = threads_deleted
              /\ created_for' = created_for
              /\ session_threads' = session_threads
              /\ session_lock' = None]_vars

\* A clear of a session without a mapping has returned while the other session
\* keeps its thread, not deleted.
C11_Witness ==
    \E p \in Callers :
        /\ reg_pc[p] = "returned" /\ reg_ret[p] = None
        /\ reg_sess[p] \in clear_called
        /\ Len(created_for) = 1
        /\ created_for[1] # reg_sess[p]
        /\ session_threads[created_for[1]] = Some(1)
        /\ threads_deleted = {}
        /\ session_lock = None

\* A caller's clear_session_thread ends in this step, returning or raising.
ClearEnds(p) ==
    /\ reg_pc[p] \in {"c_lock", "c_delete"}
    /\ reg_pc'[p] \in {"returned", "raised"}

\* C12 as stated: a clear of a session that has a mapping attempts the remote
\* deletion exactly when the engine client and the agent are both available, and
\* in either case ends with that mapping removed and every other mapping as it
\* was; a later creation for the session yields a thread never returned before.
C12_ClearRemovesMapping ==
    [][\A p \in Callers :
          /\ (ClearPassesLock(p) /\ HasThread(reg_sess[p])) =>
                 ((reg_pc'[p] = "c_delete") <=> (agents_client /\ agent))
          /\ (ClearEnds(p) /\ HasThread(reg_sess[p])) =>
                 /\ session_threads'[reg_sess[p]] = None
                 /\ \A s \in Sessions \ {reg_sess[p]} :
                        session_threads'[s] = session_threads[s]
          /\ (reg_pc[p] = "g_create" /\ reg_pc'[p] = "returned") =>
                 reg_ret'[p][1] \notin {r[2] : r \in returns}]_vars

\* A clear whose threads.delete raised has ended and the session still has its
\* mapping.
C12_Witness ==
    \E p \in Callers :
        /\ reg_pc[p] = "raised"
        /\ reg_exc[p] = Some(<<"thread deletion failed">>)
        /\ reg_sess[p] \in clear_called
        /\ HasThread(reg_sess[p])
        /\ session_lock = None

\* The processes inside the critical section across an await.
InCriticalSection == {p \in Procs : reg_pc[p] \in {"g_create", "c_delete"}}

\* The threads of session s that were created remotely and not deleted since.
LiveThreads(s) == ThreadsCreatedFor(s) \ threads_deleted

\* The critical sections never overlap, and the mapping holds at most one thread
\* per session, one created for that session.
RegistryExclusive ==
    /\ Cardinality(InCriticalSection) <= 1
    /\ \A p \in Procs : p \in InCriticalSection <=> session_lock = Some(p)
    /\ \A s \in Sessions :
         /\ Len(session_threads[s]) <= 1
         /\ HasThread(s) => session_threads[s][1] \in ThreadsCreatedFor(s)

\* C13 as stated: the critical sections never overlap, the mapping holds at most
\* one thread per session, and no session has two live threads at the same time.
C13_OneLiveThread ==
    /\ RegistryExclusive
    /\ \A s \in Sessions : Cardinality(LiveThreads(s)) <= 1

\* C13, amended: the critical sections never overlap and the mapping holds at
\* most one thread per session; a session has at most one live thread as long as
\* the engine client and the agent are both available, and in any case as long as
\* clear_session_thread was never called for it.
C13_MutualExclusion ==
    /\ RegistryExclusive
    /\ \A s \in Sessions :
         ((agents_client /\ agent) \/ s \notin clear_called) =>
             Cardinality(LiveThreads(s)) <= 1

\* A session's first thread was deleted by a clear and a second one created by a
\* later get_or_create_thread: one live thread, the mapped one.
C13_Witness ==
    /\ agents_client /\ agent
    /\ Len(created_for) = 2
    /\ created_for[1] = created_for[2]
    /\ threads_deleted = {1}
    /\ session_threads[created_for[1]] = Some(2)
    /\ session_lock = None

\* C14 as stated: whenever no operation is inside the critical section, no thread
\* held in the mapping has been deleted remotely.
C14_NoDanglingEntry ==
    session_lock = None =>
        \A s \in Sessions : HasThread(s) => session_threads[s][1] \notin threads_deleted

\* A get_or_create_thread has returned a thread that was deleted remotely and is
\* still in the mapping, with nobody inside the critical section.
C14_Witness ==
    \E p \in Procs :
        /\ reg_pc[p] = "returned"
        /\ reg_ret[p] # None
        /\ reg_ret[p][1] \in threads_deleted
        /\ session_threads[reg_sess[p]] = reg_ret[p]
        /\ session_lock = None

\* The positions of the end-of-stream item among the puts.
EndOfStreamPositions == {i \in 1..Len(pushed) : pushed[i] = EndOfStream}

\* The end-of-stream item is put at most once, and nothing is put after it.
EndOfStreamLast ==
    /\ Cardinality(EndOfStreamPositions) <= 1
    /\ \A i \in EndOfStreamPositions : i = Len(pushed)

\* C15 as stated: a task that has ended, on whichever path (the stream
\* completed, the stream failed, the consumer cancelled it), has put the
\* end-of-stream item exactly once, as its last put.
C15_EndOfStreamOnce ==
    /\ EndOfStreamLast
    /\ stream_task \in {"done", "cancelled"} => Cardinality(EndOfStreamPositions) = 1

\* C15, amended: the end-of-stream item is put at most once and nothing is put
\* after it; every path of the task reaches the put of the finally, and a task
\* that has ended has put the item exactly once, unless the cancellation was
\* raised at the await of that very put, in which case it has put none.
C15_EndOfStreamAttempted ==
    /\ EndOfStreamLast
    /\ stream_task = "done" => Cardinality(EndOfStreamPositions) = 1
    /\ stream_task = "cancelled" =>
         IF "put_cancelled" \in failures
           THEN EndOfStreamPositions = {}
           ELSE Cardinality(EndOfStreamPositions) = 1

\* The consumer timed out and cancelled the task while it was streaming, one
\* item put: the finally put the end-of-stream item after it.
C15_Witness ==
    /\ stream_task = "cancelled"
    /\ "timeout" \in failures
    /\ "put_cancelled" \notin failures
    /\ Len(pushed) = 2
    /\ pushed[2] = EndOfStream

\* C16 as stated: the usage and incompletion responses are yielded only by a
\* sequence whose loop ended by taking the end-of-stream item from the queue; a
\* loop that ended by timeout yields neither.
C16_OutcomeReadAfterEndOfStream ==
    (UsagePositions \cup IncompletePositions) # {} => loop_exit = "eos"

\* The wait timed out, the stream completed while the generator was suspended at
\* the timeout error, and the usage summary was yielded after that error.
C16_Witness ==
    /\ Exhausted
    /\ loop_exit = "timeout"
    /\ stream_task = "done"
    /\ UsagePositions # {}
    /\ \A u \in UsagePositions : \A t \in TimeoutPositions : t < u

\* The responses of a sequence of items, one per item.
RECURSIVE ResponsesOf(_)
ResponsesOf(q) ==
    IF q = <<>> THEN <<>> ELSE <<ItemResponse(Head(q))[1].response>> \o ResponsesOf(Tail(q))

\* The puts of a task whose stream failed: the items of the event sink, then the
\* one error item that carries the failure, then the end-of-stream item.
FailedStreamPuts ==
    /\ Len(pushed) >= 2
    /\ pushed[Len(pushed)] = EndOfStream
    /\ pushed[Len(pushed) - 1] = ErrorItem(StreamFailure)
    /\ \A i \in 1..(Len(pushed) - 2) : pushed[i] \in SinkItems

C18_CleanupFailureHidden ==
    (failures \cap {"join", "cleanup"} # {}) =>
        /\ \A i \in 1..Len(yield_lines) : yield_lines[i] # 288
        /\ pc # "raised"
        /\ ("join" \in failures /\ pc # "join") => token_queue = <<>>
        /\ Exhausted => EndsWithDone

\* The drain failed after the loop took the end-of-stream item: the sequence was
\* consumed to its end and its last response is the "Streaming error", with no
\* done=True.
C18_Witness ==
    /\ Exhausted
    /\ "cleanup" \in failures
    /\ loop_exit = "eos"
    /\ LastResponse = StreamingError(<<"cleanup failed">>)
    /\ DoneCount = 0

\* The generator leaves the loop in this step and enters its finally.
LeavesLoop == pc \in {"pop", "y_item", "y_timeout"} /\ pc' \in {"join", "cleanup"}

\* C19: when the loop is left with the task already finished, the finally
\* issues no cancellation and does not wait for the task: the task, its recorded
\* usage and incompletion reason, its puts and the failures met are as they
\* were, and the generator goes on to web_handler.cleanup() exactly as it would
\* without the cancellation step.
C19_CleanupIdempotent ==
    [][(LeavesLoop /\ TaskDone) =>
          /\ pc' = "cleanup"
          /\ ~cancel_requested /\ ~cancel_requested'
          /\ stream_task' = stream_task
          /\ usage' = usage /\ incomplete_details' = incomplete_details
          /\ pushed' = pushed /\ run_cancel_requested' = run_cancel_requested
          /\ responses' = responses
          /\ failures' = failures]_vars

\* The loop took the end-of-stream item of a task that had finished with a
\* recorded usage: the finally is at web_handler.cleanup(), nothing cancelled.
C19_Witness ==
    /\ pc = "cleanup"
    /\ loop_exit = "eos"
    /\ stream_task = "done"
    /\ usage # None
    /\ ~cancel_requested

\* The consumer cancelled the task while its run was in progress: the task was
\* streaming with a known run id, the stream neither completed nor failed.
CancelledWhileRunning ==
    /\ stream_task \in {"finally_cancelled", "cancelled"}
    /\ run_id
    /\ failures \cap {"stream", "put_cancelled"} = {}

\* C20 as stated: when the consumer cancels the task while its run is in
\* progress, runs.cancel is called for that run, so that a sequence that has
\* ended leaves no run uncancelled.
C20_RunCancelAttempted ==
    (Ended /\ CancelledWhileRunning) => run_cancel_requested # "none"

\* The wait timed out while the run was in progress; the task was cancelled, the
\* sequence has ended, and runs.cancel was never called.
C20_Witness ==
    /\ Exhausted
    /\ CancelledWhileRunning
    /\ loop_exit = "timeout"
    /\ run_cancel_requested = "none"
====
